---- MODULE Spec2Model ----
(***************************************************************************)
(* Model of the matching, merging and conflict-resolution core of          *)
(* personal-health-ledger: timestamps_match, round_timestamp,              *)
(* generate_record_id, ConsolidationService._merge_field, _merge_records   *)
(* and consolidate.                                                        *)
(*                                                                         *)
(* Conventions.                                                            *)
(*  - An optional float (float | None) is a sequence: <<>> is None and     *)
(*    <<v>> is the present value v.  Numeric values are fixed-point        *)
(*    integers in units of 0.0001, so that formatting to three decimals    *)
(*    and the numeric tolerance both do real work.                         *)
(*  - An aware datetime is [t |-> ticks since the epoch, off |-> UTC       *)
(*    offset in seconds].  Python compares and hashes aware datetimes by   *)
(*    instant, so equality of datetimes is equality of t; isoformat()      *)
(*    renders the wall-clock time and the offset.                          *)
(*  - A Python dict is a sequence of entries in first-insertion order.     *)
(*  - hashlib digests are taken to be injective: a record id is the pair   *)
(*    of the algorithm and the list of hashed fragments.                   *)
(*  - ingestion_timestamp (datetime.now) is not modelled.                  *)
(***************************************************************************)
EXTENDS Integers, Sequences, FiniteSets, TLC

VARIABLES pc, config, raw_records, result, prev_result, call, ret

vars == <<pc, config, raw_records, result, prev_result, call, ret>>

(* ------------------------------------------------------------------ *)
(* Bounds and value sets of the model                                  *)
(* ------------------------------------------------------------------ *)

\* longest list of raw records handed to consolidate
MaxRecords == 3

\* resolution of an instant: ticks per second (a tick is half a second)
TicksPerSecond == 2

None == <<>>

Some(v) == <<v>>

\* a str | None setting that is unset
Null == "null"

Abs(x) == IF x < 0 THEN -x ELSE x

(* ------------------------------------------------------------------ *)
(* domain/weight.py                                                    *)
(* ------------------------------------------------------------------ *)

SourceType == {"csv", "fit"}

FieldSource == {"csv", "fit", "merged", "conflict"}

\* the 14 optional numeric fields of RawWeightRecord, in declaration order
FieldNames == <<"weight_kg", "body_fat_pct", "fat_mass_kg", "fat_free_pct", "fat_free_mass_kg", "skeletal_muscle_pct", "skeletal_muscle_mass_kg", "muscle_pct", "muscle_mass_kg", "bone_mass_kg", "body_water", "bmr_kcal", "metabolic_age", "visceral_fat_rating">>

Fields == {FieldNames[i] : i \in 1..Len(FieldNames)}

(* ------------------------------------------------------------------ *)
(* utils/timezone_utils.py                                             *)
(* ------------------------------------------------------------------ *)

\* the same function with the comparison made strict
timestamps_match_strict(ts1, ts2, tolerance_seconds) == Abs(ts1.t - ts2.t) < tolerance_seconds * TicksPerSecond

\* diff = abs((ts1 - ts2).total_seconds()); return diff <= tolerance_seconds
timestamps_match(ts1, ts2, tolerance_seconds) == Abs(ts1.t - ts2.t) <= tolerance_seconds * TicksPerSecond

(* ------------------------------------------------------------------ *)
(* utils/hashing.py                                                    *)
(* ------------------------------------------------------------------ *)

\* int(x) of Python: truncation toward zero of ticks / TicksPerSecond
IntSeconds(t) == IF t >= 0 THEN t \div TicksPerSecond ELSE -((-t) \div TicksPerSecond)

\* round_timestamp: whole seconds, floored to a multiple of rounding_seconds,
\* rebuilt as a datetime in the tzinfo of the argument
round_timestamp(timestamp, rounding_seconds) == [t |-> ((IntSeconds(timestamp.t) \div rounding_seconds) * rounding_seconds) * TicksPerSecond, off |-> timestamp.off]

\* datetime.isoformat(): the wall-clock time followed by the UTC offset
isoformat(ts) == <<"iso", ts.t + ts.off * TicksPerSecond, ts.off>>

\* f"{weight_kg:.3f}": round to the nearest multiple of 0.001 (values are in 0.0001)
Format3(w) == <<"f3", (w + 5) \div 10>>

\* sorted(...) of a set of source kinds, then ",".join
RECURSIVE SortedKinds(_)
SortedKinds(kinds) == IF kinds = {} THEN <<>> ELSE IF "csv" \in kinds THEN <<"csv">> \o SortedKinds(kinds \ {"csv"}) ELSE <<"fit">> \o SortedKinds(kinds \ {"fit"})

InList(x, lst) == \E i \in 1..Len(lst) : lst[i] = x

\* generate_record_id: source_types is the enumeration (a sequence without
\* repetition) of the set of kinds, in whatever order the set iterates
generate_record_id(timestamp, weight_kg, source_types, cfg) ==
  LET rounded_ts == round_timestamp(timestamp, cfg.timestamp_rounding_seconds)
      f1 == IF InList("timestamp", cfg.include_fields) THEN <<isoformat(rounded_ts)>> ELSE <<>>
      f2 == IF InList("weight_kg", cfg.include_fields) THEN <<Format3(weight_kg)>> ELSE <<>>
      f3 == IF InList("source_types", cfg.include_fields) THEN <<SortedKinds({source_types[i] : i \in 1..Len(source_types)})>> ELSE <<>>
  IN  [algorithm |-> cfg.algorithm, hash_data |-> f1 \o f2 \o f3]

(* ------------------------------------------------------------------ *)
(* services/consolidation.py                                           *)
(* ------------------------------------------------------------------ *)

\* dict.get(key, default)
DictGet(d, key, default) == IF key \in DOMAIN d THEN d[key] ELSE default

\* the same function with the tolerance bound excluded
merge_field_strict(cfg, csv_value, fit_value, field_name) ==
  IF csv_value = None /\ fit_value = None THEN <<None, "merged", FALSE>>
  ELSE IF csv_value = None THEN <<fit_value, "fit", FALSE>>
  ELSE IF fit_value = None THEN <<csv_value, "csv", FALSE>>
  ELSE IF Abs(csv_value[1] - fit_value[1]) < cfg.numeric_tolerance THEN <<csv_value, "merged", FALSE>>
  ELSE LET preference == DictGet(cfg.conflict_resolution.field_preferences, field_name, cfg.conflict_resolution.default_preference)
       IN  IF preference = "csv" THEN <<csv_value, "conflict", TRUE>>
           ELSE IF preference = "fit" THEN <<fit_value, "conflict", TRUE>>
           ELSE <<csv_value, "conflict", TRUE>>

\* the same function ignoring the per-field preference table
merge_field_default_only(cfg, csv_value, fit_value, field_name) ==
  IF csv_value = None /\ fit_value = None THEN <<None, "merged", FALSE>>
  ELSE IF csv_value = None THEN <<fit_value, "fit", FALSE>>
  ELSE IF fit_value = None THEN <<csv_value, "csv", FALSE>>
  ELSE IF Abs(csv_value[1] - fit_value[1]) <= cfg.numeric_tolerance THEN <<csv_value, "merged", FALSE>>
  ELSE LET preference == cfg.conflict_resolution.default_preference
       IN  IF preference = "csv" THEN <<csv_value, "conflict", TRUE>>
           ELSE IF preference = "fit" THEN <<fit_value, "conflict", TRUE>>
           ELSE <<csv_value, "conflict", TRUE>>

\* the same function testing the values for truth instead of for None
merge_field_falsy(cfg, csv_value, fit_value, field_name) ==
  LET absent(v) == v = None \/ v = Some(0)
  IN  IF absent(csv_value) /\ absent(fit_value) THEN <<None, "merged", FALSE>>
      ELSE IF absent(csv_value) THEN <<fit_value, "fit", FALSE>>
      ELSE IF absent(fit_value) THEN <<csv_value, "csv", FALSE>>
      ELSE IF Abs(csv_value[1] - fit_value[1]) <= cfg.numeric_tolerance THEN <<csv_value, "merged", FALSE>>
      ELSE LET preference == DictGet(cfg.conflict_resolution.field_preferences, field_name, cfg.conflict_resolution.default_preference)
           IN  IF preference = "csv" THEN <<csv_value, "conflict", TRUE>>
               ELSE IF preference = "fit" THEN <<fit_value, "conflict", TRUE>>
               ELSE <<csv_value, "conflict", TRUE>>

\* the same function returning the midpoint of two values that agree
merge_field_midpoint(cfg, csv_value, fit_value, field_name) ==
  IF csv_value = None /\ fit_value = None THEN <<None, "merged", FALSE>>
  ELSE IF csv_value = None THEN <<fit_value, "fit", FALSE>>
  ELSE IF fit_value = None THEN <<csv_value, "csv", FALSE>>
  ELSE IF Abs(csv_value[1] - fit_value[1]) <= cfg.numeric_tolerance THEN <<Some((csv_value[1] + fit_value[1]) \div 2), "merged", FALSE>>
  ELSE LET preference == DictGet(cfg.conflict_resolution.field_preferences, field_name, cfg.conflict_resolution.default_preference)
       IN  IF preference = "csv" THEN <<csv_value, "conflict", TRUE>>
           ELSE IF preference = "fit" THEN <<fit_value, "conflict", TRUE>>
           ELSE <<csv_value, "conflict", TRUE>>

\* ConsolidationService._merge_field: <<merged_value, field_source, is_conflict>>
merge_field(cfg, csv_value, fit_value, field_name) ==
  IF csv_value = None /\ fit_value = None THEN <<None, "merged", FALSE>>
  ELSE IF csv_value = None THEN <<fit_value, "fit", FALSE>>
  ELSE IF fit_value = None THEN <<csv_value, "csv", FALSE>>
  ELSE IF Abs(csv_value[1] - fit_value[1]) <= cfg.numeric_tolerance THEN <<csv_value, "merged", FALSE>>
  ELSE LET preference == DictGet(cfg.conflict_resolution.field_preferences, field_name, cfg.conflict_resolution.default_preference)
       IN  IF preference = "csv" THEN <<csv_value, "conflict", TRUE>>
           ELSE IF preference = "fit" THEN <<fit_value, "conflict", TRUE>>
           ELSE <<csv_value, "conflict", TRUE>>

\* the fields whose is_conflict result _merge_records keeps (lines 132-146);
\* for the other twelve the flag is bound to _ and dropped (lines 148-218)
ConflictTracked == {"weight_kg", "body_fat_pct"}

\* the attribute of the first record only
MapAttrRepresentative(records, attr) == IF records = <<>> THEN <<>> ELSE <<records[1][attr]>>

\* [r.x for r in records]
RECURSIVE MapAttr(_, _)
MapAttr(records, attr) == IF records = <<>> THEN <<>> ELSE <<records[1][attr]>> \o MapAttr(Tail(records), attr)

\* the enumerations (sequences without repetition) of a set of kinds
Enumerations(S) == {q \in UNION {[1..n -> S] : n \in 0..2} : Len(q) = Cardinality(S) /\ {q[i] : i \in 1..Len(q)} = S}

\* the value of the last record of one side instead of the first
SideValueLast(records, f) == IF records = <<>> THEN None ELSE records[Len(records)].values[f]

\* "x.f if x else None" for the representative of one side
SideValue(records, f) == IF records = <<>> THEN None ELSE records[1].values[f]

\* the per-source value kept whether or not the field is in conflict
AuditValueAlways(conflicting_fields, records, f) == SideValue(records, f)

\* lines 257-263: the per-source value of a field is kept only when the field
\* is in conflicting_fields
AuditValue(conflicting_fields, records, f) == IF InList(f, conflicting_fields) THEN SideValue(records, f) ELSE None

\* ConsolidationService._merge_records: the measurement built from the tabular
\* and the binary records of one group, or the ConsolidationError it raises
merge_records(cfg, csv_records, fit_records) ==
  LET all_records == csv_records \o fit_records
      timestamp == all_records[1].timestamp
      source_types == {all_records[i].source_type : i \in 1..Len(all_records)}
      merged == [f \in Fields |-> merge_field(cfg, SideValue(csv_records, f), SideValue(fit_records, f), f)]
      conflicting_fields == SelectSeq(FieldNames, LAMBDA f : f \in ConflictTracked /\ merged[f][3])
      weight_kg == merged["weight_kg"][1]
      audit(f, side) == AuditValue(conflicting_fields, side, f)
  IN  IF weight_kg = None
      THEN [raised |-> TRUE, error |-> "Cannot consolidate record without weight_kg"]
      ELSE [raised |-> FALSE,
            record_id |-> generate_record_id(timestamp, weight_kg[1], CHOOSE q \in Enumerations(source_types) : TRUE, cfg.record_id),
            timestamp |-> timestamp,
            values |-> [f \in Fields |-> merged[f][1]],
            source_files |-> MapAttr(all_records, "source_file_name"),
            source_types |-> source_types,
            drive_file_ids |-> MapAttr(all_records, "source_file_id"),
            field_sources |-> [f \in Fields |-> merged[f][2]],
            conflicting_fields |-> conflicting_fields,
            chosen_source |-> Null,
            weight_kg_csv |-> audit("weight_kg", csv_records),
            weight_kg_fit |-> audit("weight_kg", fit_records),
            body_fat_pct_csv |-> audit("body_fat_pct", csv_records),
            body_fat_pct_fit |-> audit("body_fat_pct", fit_records)]

\* every record a group of its own
GroupEachRecord(records, groups) == [i \in 1..Len(records) |-> [ts |-> records[i].timestamp, recs |-> <<records[i]>>]]

\* for record in records: by_timestamp[record.timestamp].append(record)
\* (a defaultdict(list); an entry keeps the key object first inserted)
RECURSIVE GroupByTimestamp(_, _)
GroupByTimestamp(records, groups) ==
  IF records = <<>> THEN groups
  ELSE LET r == records[1]
           hit == {i \in 1..Len(groups) : groups[i].ts.t = r.timestamp.t}
       IN  IF hit = {}
           THEN GroupByTimestamp(Tail(records), Append(groups, [ts |-> r.timestamp, recs |-> <<r>>]))
           ELSE LET i == CHOOSE j \in hit : TRUE
                IN  GroupByTimestamp(Tail(records), [groups EXCEPT ![i].recs = Append(@, r)])

\* the same loop leaving at the first binary group within tolerance
RECURSIVE MatchedFitRecsFirst(_, _, _)
MatchedFitRecsFirst(cfg, csv_ts, fit_groups) ==
  IF fit_groups = <<>> THEN <<>>
  ELSE IF timestamps_match(csv_ts, fit_groups[1].ts, cfg.timestamp_tolerance_seconds) THEN fit_groups[1].recs
  ELSE MatchedFitRecsFirst(cfg, csv_ts, Tail(fit_groups))

\* the inner loop of consolidate (lines 300-305): the records of the binary
\* groups within tolerance of csv_ts, in the order of fit_by_timestamp
RECURSIVE MatchedFitRecs(_, _, _)
MatchedFitRecs(cfg, csv_ts, fit_groups) ==
  IF fit_groups = <<>> THEN <<>>
  ELSE (IF timestamps_match(csv_ts, fit_groups[1].ts, cfg.timestamp_tolerance_seconds) THEN fit_groups[1].recs ELSE <<>>) \o MatchedFitRecs(cfg, csv_ts, Tail(fit_groups))

\* the same set with only the binary groups at the very instant of a tabular group
MatchedFitTimestampsExact(cfg, csv_groups, fit_groups) == {fit_groups[j].ts.t : j \in {k \in 1..Len(fit_groups) : \E i \in 1..Len(csv_groups) : csv_groups[i].ts.t = fit_groups[k].ts.t}}

\* matched_fit_timestamps after the first loop: the instants of the binary
\* groups within tolerance of some tabular group
MatchedFitTimestamps(cfg, csv_groups, fit_groups) == {fit_groups[j].ts.t : j \in {k \in 1..Len(fit_groups) : \E i \in 1..Len(csv_groups) : timestamps_match(csv_groups[i].ts, fit_groups[k].ts, cfg.timestamp_tolerance_seconds)}}

\* the first loop of consolidate (lines 297-308): each tabular group with the
\* binary records it absorbs
RECURSIVE CsvGroupings(_, _, _)
CsvGroupings(cfg, csv_groups, fit_groups) ==
  IF csv_groups = <<>> THEN <<>>
  ELSE <<[csv |-> csv_groups[1].recs, fit |-> MatchedFitRecs(cfg, csv_groups[1].ts, fit_groups)]>> \o CsvGroupings(cfg, Tail(csv_groups), fit_groups)

\* the second loop of consolidate (lines 310-313): the binary groups left over
RECURSIVE FitOnlyGroupings(_, _)
FitOnlyGroupings(fit_groups, matched) ==
  IF fit_groups = <<>> THEN <<>>
  ELSE (IF fit_groups[1].ts.t \notin matched THEN <<[csv |-> <<>>, fit |-> fit_groups[1].recs]>> ELSE <<>>) \o FitOnlyGroupings(Tail(fit_groups), matched)

\* the groupings of one call, in the order consolidate builds their measurements
Groupings(cfg, records) ==
  LET csv_by_timestamp == GroupByTimestamp(SelectSeq(records, LAMBDA r : r.source_type = "csv"), <<>>)
      fit_by_timestamp == GroupByTimestamp(SelectSeq(records, LAMBDA r : r.source_type = "fit"), <<>>)
  IN  CsvGroupings(cfg, csv_by_timestamp, fit_by_timestamp) \o FitOnlyGroupings(fit_by_timestamp, MatchedFitTimestamps(cfg, csv_by_timestamp, fit_by_timestamp))

\* measurement = self._merge_records(...); consolidated.append(measurement)
RECURSIVE MergeGroupings(_, _)
MergeGroupings(cfg, groupings) == IF groupings = <<>> THEN <<>> ELSE <<merge_records(cfg, groupings[1].csv, groupings[1].fit)>> \o MergeGroupings(cfg, Tail(groupings))

\* insertion of m after every element whose timestamp is not later
RECURSIVE InsertByTimestamp(_, _)
InsertByTimestamp(sorted, m) ==
  IF sorted = <<>> THEN <<m>>
  ELSE IF sorted[1].timestamp.t <= m.timestamp.t THEN <<sorted[1]>> \o InsertByTimestamp(Tail(sorted), m)
  ELSE <<m>> \o sorted

\* the list left in encounter order
UnsortedByTimestamp(ms, acc) == acc \o ms

\* consolidated.sort(key=lambda m: m.timestamp): a stable sort
RECURSIVE SortByTimestamp(_, _)
SortByTimestamp(ms, acc) == IF ms = <<>> THEN acc ELSE SortByTimestamp(Tail(ms), InsertByTimestamp(acc, ms[1]))

\* ConsolidationService.consolidate: the sorted measurements, or the
\* ConsolidationError that wraps whatever was raised inside the try block
consolidate(cfg, records) ==
  LET consolidated == MergeGroupings(cfg, Groupings(cfg, records))
  IN  IF \E i \in 1..Len(consolidated) : consolidated[i].raised
      THEN [status |-> "ConsolidationError", measurements |-> <<>>]
      ELSE [status |-> "returned", measurements |-> SortByTimestamp(consolidated, <<>>)]

(* ------------------------------------------------------------------ *)
(* Inputs of the model                                                 *)
(* ------------------------------------------------------------------ *)

\* RecordIDConfig as the tests build it, with the bucket scaled to two seconds
RecordIdConfigs == {[algorithm |-> "sha256", timestamp_rounding_seconds |-> 2, include_fields |-> <<"timestamp", "weight_kg", "source_types">>]}

\* ConflictResolutionConfig: the binary source preferred, the tabular one for body fat
ConflictConfigs == {[default_preference |-> "fit", field_preferences |-> [f \in {"body_fat_pct"} |-> "csv"]]}

\* ProcessingConfig: tolerance of one second, numeric tolerance 0.001
Configs == {[timestamp_tolerance_seconds |-> 1, numeric_tolerance |-> 10, record_id |-> rc, conflict_resolution |-> cc] : rc \in RecordIdConfigs, cc \in ConflictConfigs}

\* what one raw record measures: nothing at all; a full reading; one that agrees
\* with it on the weight within tolerance and differs on body fat; one that
\* differs on the weight and on the other twelve fields
Reading(w, b, o) == [f \in Fields |-> IF f = "weight_kg" THEN w ELSE IF f = "body_fat_pct" THEN b ELSE o]

Readings == {Reading(None, None, None), Reading(Some(755000), Some(182000), Some(137000)), Reading(Some(755004), Some(185000), Some(137000)), Reading(Some(760000), Some(182000), Some(140000))}

\* instants of the raw records, in whole seconds
RecordSeconds == {0, 1, 2}

RawRecord(kind, sec, reading) == [timestamp |-> [t |-> sec * TicksPerSecond, off |-> 0], values |-> reading, source_file_name |-> <<"Weight 01-2024", kind>>, source_file_id |-> <<kind, sec, reading["weight_kg"], reading["body_fat_pct"]>>, source_type |-> kind]

RecordPool == {RawRecord(k, s, r) : k \in SourceType, s \in RecordSeconds, r \in Readings}

SeqsUpTo(S, n) == UNION {[1..k -> S] : k \in 0..n}

NoResult == [status |-> "none", measurements |-> <<>>]

NoCall == [fn |-> "none"]

(* ------------------------------------------------------------------ *)
(* The consolidation run                                               *)
(* ------------------------------------------------------------------ *)

Init ==
  /\ pc = "ready"
  /\ config \in Configs
  /\ raw_records \in SeqsUpTo(RecordPool, MaxRecords)
  /\ result = NoResult
  /\ prev_result = NoResult
  /\ call = NoCall
  /\ ret = None

\* one call consolidate(raw_records)
Consolidate ==
  /\ pc = "ready"
  /\ result' = consolidate(config, raw_records)
  /\ pc' = "done"
  /\ UNCHANGED <<config, raw_records, prev_result, call, ret>>

Next == Consolidate

Spec == Init /\ [][Next]_vars

\* the caller hands the same records over again with two neighbours exchanged
Reorder ==
  /\ pc = "done"
  /\ prev_result = NoResult
  /\ \E i \in 1..(Len(raw_records) - 1) :
       raw_records' = [raw_records EXCEPT ![i] = raw_records[i + 1], ![i + 1] = raw_records[i]]
  /\ prev_result' = result
  /\ result' = NoResult
  /\ pc' = "ready"
  /\ UNCHANGED <<config, call, ret>>

NextOrder == Consolidate \/ Reorder

SpecOrder == Init /\ [][NextOrder]_vars

(* ------------------------------------------------------------------ *)
(* Properties of consolidate                                           *)
(* ------------------------------------------------------------------ *)

Returned == pc = "done" /\ result.status = "returned"

Failed == pc = "done" /\ result.status = "ConsolidationError"

\* a list as a bag: the number of times each element occurs
AsBag(lst) == [x \in {lst[i] : i \in 1..Len(lst)} |-> Cardinality({i \in 1..Len(lst) : lst[i] = x})]

\* a measurement up to the internal order of its lineage lists
UpToLineageOrder(m) == [m EXCEPT !.source_files = AsBag(@), !.drive_file_ids = AsBag(@)]

\* a result up to the internal order of the lineage lists of its measurements
ResultUpToLineageOrder(r) == [status |-> r.status, measurements |-> [i \in 1..Len(r.measurements) |-> UpToLineageOrder(r.measurements[i])]]

\* C1: consolidating two orderings of the same multiset of raw records gives
\* the same outcome: the same measurements in the same order, up to the
\* internal order of the lineage lists.
C1_OrderIndependent == (pc = "done" /\ prev_result # NoResult) => ResultUpToLineageOrder(result) = ResultUpToLineageOrder(prev_result)

\* the value one side supplies for field f to the measurement of grouping g
CsvSupplied(g, f) == SideValue(g.csv, f)

FitSupplied(g, f) == SideValue(g.fit, f)

\* both sides supplied field f and the two values differ by more than the tolerance
Disagree(g, f) == CsvSupplied(g, f) # None /\ FitSupplied(g, f) # None /\ Abs(CsvSupplied(g, f)[1] - FitSupplied(g, f)[1]) > config.numeric_tolerance

\* the weight a grouping resolves to is absent: no representative has one
AbsentWeight(g) == CsvSupplied(g, "weight_kg") = None /\ FitSupplied(g, "weight_kg") = None

\* the grouping a returned measurement was built from (instants of the
\* measurements of one result are distinct when the tolerance is not negative)
GroupingOf(m) == CHOOSE g \in {Groupings(config, raw_records)[i] : i \in 1..Len(Groupings(config, raw_records))} : (g.csv \o g.fit)[1].timestamp.t = m.timestamp.t /\ (g.csv = <<>>) = ("csv" \notin m.source_types)

\* C2: in every returned measurement, each of the 14 fields is listed in
\* conflicting_fields exactly when both sides supplied it and the values
\* differ by more than numeric_tolerance.
C2_ConflictingFieldsExact == Returned => \A i \in 1..Len(result.measurements) : \A f \in Fields : InList(f, result.measurements[i].conflicting_fields) <=> Disagree(GroupingOf(result.measurements[i]), f)

\* C3: when one grouping resolves to an absent weight and another to a
\* present one, consolidate returns, and returns one measurement per valid
\* grouping.
C3_InvalidGroupLeftOut == (pc = "done" /\ (\E i \in 1..Len(Groupings(config, raw_records)) : AbsentWeight(Groupings(config, raw_records)[i])) /\ (\E i \in 1..Len(Groupings(config, raw_records)) : ~AbsentWeight(Groupings(config, raw_records)[i]))) => (result.status = "returned" /\ Len(result.measurements) = Cardinality({i \in 1..Len(Groupings(config, raw_records)) : ~AbsentWeight(Groupings(config, raw_records)[i])}))

\* C4: consolidate never returns an empty sequence; with no surviving
\* measurement it fails with a ConsolidationError.
C4_NeverReturnsEmpty == pc = "done" => ~(result.status = "returned" /\ result.measurements = <<>>)

\* C5: the returned sequence is in non-decreasing order of timestamp.
C5_SortedByTimestamp == Returned => \A i \in 1..Len(result.measurements) : \A j \in i..Len(result.measurements) : result.measurements[i].timestamp.t <= result.measurements[j].timestamp.t

\* a returned result whose first measurement comes from a grouping that was
\* not built first: the sort moved it
C5_Witness == Returned /\ Len(result.measurements) >= 2 /\ result.measurements[1].timestamp.t < (Groupings(config, raw_records)[1].csv \o Groupings(config, raw_records)[1].fit)[1].timestamp.t

\* the positions in raw_records of the tabular records at the instant of
\* measurement m
CsvContributors(m) == {i \in 1..Len(raw_records) : raw_records[i].source_type = "csv" /\ raw_records[i].timestamp.t = m.timestamp.t}

\* the positions in raw_records of the binary records that belong to m: those
\* within the tolerance of its instant when m has tabular records, those at
\* its instant when it has none
FitContributors(m) == {i \in 1..Len(raw_records) : raw_records[i].source_type = "fit" /\ (IF CsvContributors(m) # {} THEN Abs(raw_records[i].timestamp.t - m.timestamp.t) <= config.timestamp_tolerance_seconds * TicksPerSecond ELSE raw_records[i].timestamp.t = m.timestamp.t)}

\* the values of one attribute of the records at positions I, as a bag
BagAt(I, attr) == [x \in {raw_records[i][attr] : i \in I} |-> Cardinality({i \in I : raw_records[i][attr] = x})]

\* the record of positions I that comes first in raw_records
FirstAt(I) == raw_records[CHOOSE i \in I : \A j \in I : i <= j]

\* C15: in every returned measurement, source_files and drive_file_ids hold
\* exactly one entry per contributing raw record (all tabular records of the
\* group and all records of every absorbed binary group), and source_types
\* is exactly the set of kinds of those records.
C15_LineageComplete == Returned => \A k \in 1..Len(result.measurements) : LET m == result.measurements[k]
                                                                            I == CsvContributors(m) \cup FitContributors(m)
                                                                        IN  /\ AsBag(m.source_files) = BagAt(I, "source_file_name")
                                                                            /\ AsBag(m.drive_file_ids) = BagAt(I, "source_file_id")
                                                                            /\ m.source_types = {raw_records[i].source_type : i \in I}

\* a measurement built from two tabular records of one instant and a binary
\* record of another instant: three lineage entries, both kinds
C15_Witness == Returned /\ \E k \in 1..Len(result.measurements) : LET m == result.measurements[k] IN Len(m.source_files) = 3 /\ Len(m.drive_file_ids) = 3 /\ m.drive_file_ids[1][1] = "csv" /\ m.drive_file_ids[2][1] = "csv" /\ m.drive_file_ids[3][1] = "fit" /\ m.drive_file_ids[3][2] # m.drive_file_ids[1][2] /\ m.source_types = {"csv", "fit"}

\* C16: in every returned measurement, weight_kg_csv and weight_kg_fit are
\* the weights of the tabular and of the binary representative when weight_kg
\* is in conflicting_fields and are absent when it is not; likewise
\* body_fat_pct_csv and body_fat_pct_fit for body_fat_pct.
C16_AuditValues == Returned => \A k \in 1..Len(result.measurements) : LET m == result.measurements[k]
                                                                        IN  /\ IF InList("weight_kg", m.conflicting_fields)
                                                                               THEN m.weight_kg_csv = FirstAt(CsvContributors(m)).values["weight_kg"] /\ m.weight_kg_fit = FirstAt(FitContributors(m)).values["weight_kg"]
                                                                               ELSE m.weight_kg_csv = None /\ m.weight_kg_fit = None
                                                                            /\ IF InList("body_fat_pct", m.conflicting_fields)
                                                                               THEN m.body_fat_pct_csv = FirstAt(CsvContributors(m)).values["body_fat_pct"] /\ m.body_fat_pct_fit = FirstAt(FitContributors(m)).values["body_fat_pct"]
                                                                               ELSE m.body_fat_pct_csv = None /\ m.body_fat_pct_fit = None

\* a measurement in conflict on the weight and not on body fat, which both
\* sides supplied: the two weights are kept, the body fat values are not
C16_Witness == Returned /\ \E k \in 1..Len(result.measurements) : LET m == result.measurements[k] IN m.conflicting_fields = <<"weight_kg">> /\ m.weight_kg_csv = Some(755000) /\ m.weight_kg_fit = Some(760000) /\ FirstAt(CsvContributors(m)).values["body_fat_pct"] # None /\ FirstAt(FitContributors(m)).values["body_fat_pct"] # None /\ m.body_fat_pct_csv = None /\ m.body_fat_pct_fit = None

\* C19: every returned measurement has a present weight_kg, equal to the
\* weight of the tabular representative or of the binary representative of
\* its group.
C19_WeightPresent == Returned => \A k \in 1..Len(result.measurements) : LET m == result.measurements[k]
                                                                          IN  /\ m.values["weight_kg"] # None
                                                                              /\ \/ CsvContributors(m) # {} /\ m.values["weight_kg"] = FirstAt(CsvContributors(m)).values["weight_kg"]
                                                                                 \/ FitContributors(m) # {} /\ m.values["weight_kg"] = FirstAt(FitContributors(m)).values["weight_kg"]

\* a measurement whose tabular representative has no weight: the weight is
\* the one of the binary representative
C19_Witness == Returned /\ \E k \in 1..Len(result.measurements) : LET m == result.measurements[k] IN CsvContributors(m) # {} /\ FitContributors(m) # {} /\ FirstAt(CsvContributors(m)).values["weight_kg"] = None /\ m.values["weight_kg"] = FirstAt(FitContributors(m)).values["weight_kg"] /\ m.values["weight_kg"] # None

\* C20: for every tabular record, at instant T, the result has a measurement
\* at T built from tabular records whose lineage lists a binary record
\* exactly when the instant of that record is within
\* timestamp_tolerance_seconds of T.
C20_AbsorbsAllWithinTolerance == Returned => \A i \in 1..Len(raw_records) : raw_records[i].source_type = "csv" => \E k \in 1..Len(result.measurements) : LET m == result.measurements[k]
                                                                                                                                                          IN  /\ m.timestamp.t = raw_records[i].timestamp.t
                                                                                                                                                              /\ "csv" \in m.source_types
                                                                                                                                                              /\ \A j \in 1..Len(raw_records) : raw_records[j].source_type = "fit" => (InList(raw_records[j].source_file_id, m.drive_file_ids) <=> Abs(raw_records[j].timestamp.t - raw_records[i].timestamp.t) <= config.timestamp_tolerance_seconds * TicksPerSecond)

\* a tabular group that absorbed the binary groups of two different instants
C20_Witness == Returned /\ \E k \in 1..Len(result.measurements) : LET m == result.measurements[k] IN "csv" \in m.source_types /\ \E a, b \in 1..Len(m.drive_file_ids) : m.drive_file_ids[a][1] = "fit" /\ m.drive_file_ids[b][1] = "fit" /\ m.drive_file_ids[a][2] # m.drive_file_ids[b][2]

(* ------------------------------------------------------------------ *)
(* _merge_field on its own                                             *)
(* ------------------------------------------------------------------ *)

\* optional values handed to _merge_field: absent, zero, and values that are
\* equal, exactly numeric_tolerance apart, and further apart
MergeValues == {None, Some(0), Some(755000), Some(755010), Some(755011), Some(760000)}

PreferenceTables == {<<>>} \cup {[f \in {"body_fat_pct"} |-> p] : p \in {"csv", "fit", "manual"}}

MergeConfigs == {[timestamp_tolerance_seconds |-> 1, numeric_tolerance |-> tol, record_id |-> rc, conflict_resolution |-> [default_preference |-> d, field_preferences |-> fp]] : tol \in {0, 10}, rc \in RecordIdConfigs, d \in {Null, "csv", "fit", "manual"}, fp \in PreferenceTables}

InitMerge ==
  /\ pc = "ready"
  /\ config \in MergeConfigs
  /\ call \in {[fn |-> "_merge_field", csv_value |-> a, fit_value |-> b, field_name |-> f] : a \in MergeValues, b \in MergeValues, f \in {"weight_kg", "body_fat_pct", "bmr_kcal"}}
  /\ raw_records = <<>>
  /\ result = NoResult
  /\ prev_result = NoResult
  /\ ret = None

\* one call self._merge_field(csv_value, fit_value, field_name)
CallMergeField ==
  /\ pc = "ready"
  /\ call.fn = "_merge_field"
  /\ ret' = merge_field(config, call.csv_value, call.fit_value, call.field_name)
  /\ pc' = "returned"
  /\ UNCHANGED <<config, raw_records, result, prev_result, call>>

NextMerge == CallMergeField

SpecMerge == InitMerge /\ [][NextMerge]_vars

MergeReturned == pc = "returned" /\ call.fn = "_merge_field"

BothPresent == call.csv_value # None /\ call.fit_value # None

\* the preference that applies to the field: its entry in field_preferences
\* if it has one, else default_preference
NamedPreference == IF call.field_name \in DOMAIN config.conflict_resolution.field_preferences THEN config.conflict_resolution.field_preferences[call.field_name] ELSE config.conflict_resolution.default_preference

\* C6: both values present and further apart than numeric_tolerance: the tag
\* is conflict, is_conflict is true, and the value is the one of the preferred
\* source, the tabular one when the preference names neither source.
C6_ConflictCase == (MergeReturned /\ BothPresent /\ Abs(call.csv_value[1] - call.fit_value[1]) > config.numeric_tolerance) => (ret[2] = "conflict" /\ ret[3] = TRUE /\ ret[1] = (IF NamedPreference = "csv" THEN call.csv_value ELSE IF NamedPreference = "fit" THEN call.fit_value ELSE call.csv_value))

\* a conflict settled by the per-field preference against the default one
C6_Witness == MergeReturned /\ BothPresent /\ ret[3] /\ call.field_name = "body_fat_pct" /\ config.conflict_resolution.field_preferences = [f \in {"body_fat_pct"} |-> "fit"] /\ config.conflict_resolution.default_preference = "csv" /\ ret[1] = call.fit_value /\ call.fit_value # call.csv_value

\* C7: both values present and no further apart than numeric_tolerance: the
\* tabular value, tag merged, no conflict, whatever the preferences.
C7_AgreementCase == (MergeReturned /\ BothPresent /\ Abs(call.csv_value[1] - call.fit_value[1]) <= config.numeric_tolerance) => ret = <<call.csv_value, "merged", FALSE>>

\* two different values exactly numeric_tolerance apart, the binary source preferred
C7_Witness == MergeReturned /\ BothPresent /\ call.csv_value # call.fit_value /\ Abs(call.csv_value[1] - call.fit_value[1]) = config.numeric_tolerance /\ NamedPreference = "fit" /\ ret = <<call.csv_value, "merged", FALSE>>

\* C8: both absent gives (absent, merged, no conflict); exactly one present
\* gives that value with the tag of its source and no conflict; a present 0
\* is a present value.
C8_AtMostOnePresent == MergeReturned => ((call.csv_value = None /\ call.fit_value = None => ret = <<None, "merged", FALSE>>) /\ (call.csv_value # None /\ call.fit_value = None => ret = <<call.csv_value, "csv", FALSE>>) /\ (call.csv_value = None /\ call.fit_value # None => ret = <<call.fit_value, "fit", FALSE>>))

\* a tabular 0 with no binary value comes back as the value 0 from csv
C8_Witness == MergeReturned /\ call.csv_value = Some(0) /\ call.fit_value = None /\ ret = <<Some(0), "csv", FALSE>>

(* ------------------------------------------------------------------ *)
(* timestamps_match on its own                                         *)
(* ------------------------------------------------------------------ *)

\* instants around the epoch, in ticks, in two time zones
MatchTimestamps == {[t |-> t, off |-> o] : t \in -3..3, o \in {0, -10800}}

InitMatch ==
  /\ pc = "ready"
  /\ config \in Configs
  /\ call \in {[fn |-> "timestamps_match", ts1 |-> a, ts2 |-> b, tolerance_seconds |-> s] : a \in MatchTimestamps, b \in MatchTimestamps, s \in {-1, 0, 1, 2}}
  /\ raw_records = <<>>
  /\ result = NoResult
  /\ prev_result = NoResult
  /\ ret = None

\* the calls match(ts1, ts2, s), match(ts2, ts1, s) and match(ts1, ts1, 0)
CallTimestampsMatch ==
  /\ pc = "ready"
  /\ call.fn = "timestamps_match"
  /\ ret' = [forward |-> timestamps_match(call.ts1, call.ts2, call.tolerance_seconds), backward |-> timestamps_match(call.ts2, call.ts1, call.tolerance_seconds), self |-> timestamps_match(call.ts1, call.ts1, 0)]
  /\ pc' = "returned"
  /\ UNCHANGED <<config, raw_records, result, prev_result, call>>

NextMatch == CallTimestampsMatch

SpecMatch == InitMatch /\ [][NextMatch]_vars

MatchReturned == pc = "returned" /\ call.fn = "timestamps_match"

\* C9: timestamps_match is true exactly when the instants are at most s
\* seconds apart; with s >= 0 it is symmetric, and an instant matches itself
\* at tolerance 0.
C9_MatchIffWithinTolerance == MatchReturned => ((ret.forward <=> Abs(call.ts1.t - call.ts2.t) <= call.tolerance_seconds * TicksPerSecond) /\ (call.tolerance_seconds >= 0 => ret.forward = ret.backward) /\ ret.self)

\* two different instants, in different zones, exactly s seconds apart: a match
C9_Witness == MatchReturned /\ call.ts1.t # call.ts2.t /\ call.ts1.off # call.ts2.off /\ Abs(call.ts1.t - call.ts2.t) = call.tolerance_seconds * TicksPerSecond /\ ret.forward /\ ret.backward

(* ------------------------------------------------------------------ *)
(* generate_record_id on its own                                       *)
(* ------------------------------------------------------------------ *)

IdTimestamps == {[t |-> t, off |-> o] : t \in -4..4, o \in {0, -10800}}

\* weights that print alike to three decimals (75.5000, 75.5004) and one that does not
IdWeights == {755000, 755004, 755006}

IdKinds == UNION {Enumerations(S) : S \in (SUBSET SourceType) \ {{}}}

IdConfigs == {[timestamp_tolerance_seconds |-> 1, numeric_tolerance |-> 10, record_id |-> [algorithm |-> "sha256", timestamp_rounding_seconds |-> 2, include_fields |-> inc], conflict_resolution |-> cc] : inc \in {<<"timestamp", "weight_kg", "source_types">>, <<"weight_kg", "source_types">>}, cc \in ConflictConfigs}

InitId ==
  /\ pc = "ready"
  /\ config \in IdConfigs
  /\ call \in {[fn |-> "generate_record_id", timestamp1 |-> a, timestamp2 |-> b, weight1 |-> v, weight2 |-> w, kinds1 |-> k, kinds2 |-> l] : a \in IdTimestamps, b \in IdTimestamps, v \in IdWeights, w \in IdWeights, k \in IdKinds, l \in IdKinds}
  /\ raw_records = <<>>
  /\ result = NoResult
  /\ prev_result = NoResult
  /\ ret = None

\* two calls of generate_record_id under the same config
CallGenerateRecordId ==
  /\ pc = "ready"
  /\ call.fn = "generate_record_id"
  /\ ret' = <<generate_record_id(call.timestamp1, call.weight1, call.kinds1, config.record_id), generate_record_id(call.timestamp2, call.weight2, call.kinds2, config.record_id)>>
  /\ pc' = "returned"
  /\ UNCHANGED <<config, raw_records, result, prev_result, call>>

NextId == CallGenerateRecordId

SpecId == InitId /\ [][NextId]_vars

IdReturned == pc = "returned" /\ call.fn = "generate_record_id"

KindSet(q) == {q[i] : i \in 1..Len(q)}

\* the two timestamps fall in the same bucket: they round to the same instant
SameBucket == round_timestamp(call.timestamp1, config.record_id.timestamp_rounding_seconds).t = round_timestamp(call.timestamp2, config.record_id.timestamp_rounding_seconds).t

\* C10: two calls whose timestamps fall in the same bucket, with the same
\* weight to three decimals and the same set of kinds, under the same config,
\* return the same id, in whatever order the kinds are enumerated.
C10_IdDeterminedByBucketWeightKinds == (IdReturned /\ SameBucket /\ Format3(call.weight1) = Format3(call.weight2) /\ KindSet(call.kinds1) = KindSet(call.kinds2)) => ret[1] = ret[2]

\* the bucket of an instant: floor(t / b), with t in ticks and b in seconds
Bucket(ts, b) == ts.t \div (b * TicksPerSecond)

\* C11: round_timestamp(t, b) is the greatest multiple of b seconds that is
\* not later than t, and two instants round to the same instant exactly when
\* floor(t1 / b) = floor(t2 / b).
C11_RoundsDown == IdReturned => LET b == config.record_id.timestamp_rounding_seconds
                                    r1 == round_timestamp(call.timestamp1, b)
                                    r2 == round_timestamp(call.timestamp2, b)
                                IN  /\ r1.t % (b * TicksPerSecond) = 0
                                    /\ r1.t <= call.timestamp1.t
                                    /\ call.timestamp1.t < r1.t + b * TicksPerSecond
                                    /\ (r1.t = r2.t) <=> (Bucket(call.timestamp1, b) = Bucket(call.timestamp2, b))

(* ------------------------------------------------------------------ *)
(* consolidate under the configurations the loader accepts             *)
(* ------------------------------------------------------------------ *)

\* ConflictResolutionConfig and ProcessingConfig declare default_preference
\* as str | None, field_preferences as dict[str, str], the tolerances as int
\* and float, with no Field constraint and no validator: a preference that
\* names no source and a negative tolerance load like any other value
LoadedConfigs == {[timestamp_tolerance_seconds |-> tt, numeric_tolerance |-> nt, record_id |-> rc, conflict_resolution |-> [default_preference |-> d, field_preferences |-> fp]] : tt \in {-1, 1}, nt \in {-10, 10}, rc \in RecordIdConfigs, d \in {Null, "csv", "fit", "manual"}, fp \in PreferenceTables}

\* two full readings that differ on every field, at two instants a second apart
LoadedRecordPool == {RawRecord(k, s, r) : k \in SourceType, s \in {0, 1}, r \in {Reading(Some(755000), Some(182000), Some(137000)), Reading(Some(760000), Some(185000), Some(140000))}}

InitLoaded ==
  /\ pc = "ready"
  /\ config \in LoadedConfigs
  /\ raw_records \in UNION {[1..k -> LoadedRecordPool] : k \in {1, 2}}
  /\ result = NoResult
  /\ prev_result = NoResult
  /\ call = NoCall
  /\ ret = None

SpecLoaded == InitLoaded /\ [][Next]_vars

\* a preference that is neither a source tag nor unset, or a negative tolerance
Malformed(cfg) ==
  \/ cfg.conflict_resolution.default_preference \notin {"csv", "fit", Null}
  \/ \E f \in DOMAIN cfg.conflict_resolution.field_preferences : cfg.conflict_resolution.field_preferences[f] \notin {"csv", "fit"}
  \/ cfg.timestamp_tolerance_seconds < 0
  \/ cfg.numeric_tolerance < 0

\* C18: under a malformed configuration consolidate fails with a
\* configuration error and produces no measurement.
C18_MalformedConfigRejected == (pc = "done" /\ Malformed(config)) => (result.status = "ConfigurationError" /\ result.measurements = <<>>)

(* ------------------------------------------------------------------ *)
(* services/comparison.py                                              *)
(*                                                                     *)
(* A file name is the sequence of its whitespace-separated tokens, and *)
(* a token is the sequence of its "-"-separated pieces: the name       *)
(* "Peso 1-2024 Huawei Health.csv" is                                  *)
(* << <<"Peso">>, <<"1", "2024">>, <<"Huawei">>, <<"Health.csv">> >>.  *)
(* ------------------------------------------------------------------ *)

\* int(s): the value of a string of digits, None for the ValueError
ParseInt(s) == IF s \in {"1", "01"} THEN Some(1) ELSE IF s = "2" THEN Some(2) ELSE IF s = "2024" THEN Some(2024) ELSE None

\* ComparisonService._extract_month_year: (month, year) from the second
\* token, None when there is no second token, when it does not split into
\* exactly two pieces or when a piece is not an integer
extract_month_year(filename) ==
  IF Len(filename) < 2 THEN None
  ELSE LET date_part == filename[2]
       IN  IF Len(date_part) # 2 THEN None
           ELSE IF ParseInt(date_part[1]) = None \/ ParseInt(date_part[2]) = None THEN None
           ELSE Some(<<ParseInt(date_part[1])[1], ParseInt(date_part[2])[1]>>)

\* by_file[record.source_file_name].append(record), a defaultdict(list)
RECURSIVE GroupByFile(_, _)
GroupByFile(records, by_file) ==
  IF records = <<>> THEN by_file
  ELSE LET r == records[1]
           hit == {i \in 1..Len(by_file) : by_file[i].file = r.source_file_name}
       IN  IF hit = {}
           THEN GroupByFile(Tail(records), Append(by_file, [file |-> r.source_file_name, recs |-> <<r>>]))
           ELSE LET i == CHOOSE j \in hit : TRUE
                IN  GroupByFile(Tail(records), [by_file EXCEPT ![i].recs = Append(@, r)])

\* lines 143-153: by_month_year[month_year] = file for every file whose name
\* parses; a later file with the same key replaces the earlier one
RECURSIVE ByMonthYear(_, _)
ByMonthYear(by_file, table) ==
  IF by_file = <<>> THEN table
  ELSE LET file == by_file[1].file
           month_year == extract_month_year(file)
           hit == {i \in 1..Len(table) : month_year # None /\ table[i].key = month_year[1]}
       IN  IF month_year = None THEN ByMonthYear(Tail(by_file), table)
           ELSE IF hit = {} THEN ByMonthYear(Tail(by_file), Append(table, [key |-> month_year[1], file |-> file]))
           ELSE LET i == CHOOSE j \in hit : TRUE
                IN  ByMonthYear(Tail(by_file), [table EXCEPT ![i].file = file])

\* by_file[file]
RecordsOfFile(by_file, file) == by_file[CHOOSE i \in 1..Len(by_file) : by_file[i].file = file].recs

\* table[key], for a key the table has
FileOfKey(table, key) == table[CHOOSE i \in 1..Len(table) : table[i].key = key].file

HasKey(table, key) == \E i \in 1..Len(table) : table[i].key = key

\* lines 157-160: one pair per key of csv_by_month_year that
\* fit_by_month_year has too
RECURSIVE PairedPairs(_, _, _, _)
PairedPairs(csv_table, fit_table, csv_by_file, fit_by_file) ==
  IF csv_table = <<>> THEN <<>>
  ELSE (IF HasKey(fit_table, csv_table[1].key) THEN <<[csv |-> RecordsOfFile(csv_by_file, csv_table[1].file), fit |-> RecordsOfFile(fit_by_file, FileOfKey(fit_table, csv_table[1].key))]>> ELSE <<>>) \o PairedPairs(Tail(csv_table), fit_table, csv_by_file, fit_by_file)

\* the same loop leaving out the files whose name does not parse
RECURSIVE UnpairedParsedOnly(_, _, _)
UnpairedParsedOnly(by_file, paired_files, side) ==
  IF by_file = <<>> THEN <<>>
  ELSE (IF by_file[1].file \notin paired_files /\ extract_month_year(by_file[1].file) # None THEN <<IF side = "csv" THEN [csv |-> by_file[1].recs, fit |-> <<>>] ELSE [csv |-> <<>>, fit |-> by_file[1].recs]>> ELSE <<>>) \o UnpairedParsedOnly(Tail(by_file), paired_files, side)

\* lines 168-176: every file of one side that is not in a pair, with the
\* other side empty
RECURSIVE UnpairedPairs(_, _, _)
UnpairedPairs(by_file, paired_files, side) ==
  IF by_file = <<>> THEN <<>>
  ELSE (IF by_file[1].file \notin paired_files THEN <<IF side = "csv" THEN [csv |-> by_file[1].recs, fit |-> <<>>] ELSE [csv |-> <<>>, fit |-> by_file[1].recs]>> ELSE <<>>) \o UnpairedPairs(Tail(by_file), paired_files, side)

\* ComparisonService._find_file_pairs: the pairs, then the unpaired binary
\* files, then the unpaired tabular files
find_file_pairs(csv_records, fit_records) ==
  LET csv_by_file == GroupByFile(csv_records, <<>>)
      fit_by_file == GroupByFile(fit_records, <<>>)
      csv_by_month_year == ByMonthYear(csv_by_file, <<>>)
      fit_by_month_year == ByMonthYear(fit_by_file, <<>>)
      shared == {i \in 1..Len(csv_by_month_year) : HasKey(fit_by_month_year, csv_by_month_year[i].key)}
      paired_csv_files == {csv_by_month_year[i].file : i \in shared}
      paired_fit_files == {FileOfKey(fit_by_month_year, csv_by_month_year[i].key) : i \in shared}
  IN  PairedPairs(csv_by_month_year, fit_by_month_year, csv_by_file, fit_by_file) \o UnpairedPairs(fit_by_file, paired_fit_files, "fit") \o UnpairedPairs(csv_by_file, paired_csv_files, "csv")

\* the file name and the drive id reported for an empty side: "N/A"
NotAvailable == <<<<"N/A">>>>

\* min(...) and max(...) of the timestamps of a list of records; the first
\* of several equal instants is the one returned
RECURSIVE MinTimestamp(_, _)
MinTimestamp(records, best) == IF records = <<>> THEN best ELSE MinTimestamp(Tail(records), IF records[1].timestamp.t < best.t THEN records[1].timestamp ELSE best)

RECURSIVE MaxTimestamp(_, _)
MaxTimestamp(records, best) == IF records = <<>> THEN best ELSE MaxTimestamp(Tail(records), IF records[1].timestamp.t > best.t THEN records[1].timestamp ELSE best)

\* the truth value of a float | None: None and 0.0 are false
Truthy(v) == v # None /\ v[1] # 0

\* the fields compared besides weight_kg (lines 234-239)
ComparedFields == {"body_fat_pct", "fat_mass_kg", "fat_free_pct", "fat_free_mass_kg"}

\* lines 227-245: whether the matched pair adds one to mismatches[field]
CountsMismatch(cfg, csv_record, fit_record, field) ==
  IF field = "weight_kg" THEN Truthy(csv_record.values[field]) /\ Truthy(fit_record.values[field]) /\ Abs(csv_record.values[field][1] - fit_record.values[field][1]) > cfg.numeric_tolerance
  ELSE IF field \in ComparedFields THEN csv_record.values[field] # None /\ fit_record.values[field] # None /\ Abs(csv_record.values[field][1] - fit_record.values[field][1]) > cfg.numeric_tolerance
  ELSE FALSE

\* what one matched pair does to the counters (lines 223-245)
RecordMatch(cfg, csv_record, fit_record, fit_idx, acc) ==
  [acc EXCEPT !.both_count = @ + 1,
              !.matched_fit_indices = @ \cup {fit_idx},
              !.weight_differences = IF Truthy(csv_record.values["weight_kg"]) /\ Truthy(fit_record.values["weight_kg"]) THEN Append(@, Abs(csv_record.values["weight_kg"][1] - fit_record.values["weight_kg"][1])) ELSE @,
              !.mismatches = [f \in Fields |-> @[f] + (IF CountsMismatch(cfg, csv_record, fit_record, f) THEN 1 ELSE 0)]]

\* the same step taking the binary record closest in time
CompareRecordClosest(cfg, csv_record, fit_records, acc) ==
  LET within == {i \in 1..Len(fit_records) : timestamps_match(csv_record.timestamp, fit_records[i].timestamp, cfg.timestamp_tolerance_seconds)}
      closest == {i \in within : \A j \in within : Abs(csv_record.timestamp.t - fit_records[i].timestamp.t) <= Abs(csv_record.timestamp.t - fit_records[j].timestamp.t)}
  IN  IF within = {} THEN [acc EXCEPT !.csv_only_count = @ + 1]
      ELSE LET fit_idx == CHOOSE i \in closest : \A j \in closest : i <= j
           IN  RecordMatch(cfg, csv_record, fit_records[fit_idx], fit_idx, acc)

\* the same step with the instants compared strictly
CompareRecordStrict(cfg, csv_record, fit_records, acc) ==
  LET within == {i \in 1..Len(fit_records) : timestamps_match_strict(csv_record.timestamp, fit_records[i].timestamp, cfg.timestamp_tolerance_seconds)}
  IN  IF within = {} THEN [acc EXCEPT !.csv_only_count = @ + 1]
      ELSE LET fit_idx == CHOOSE i \in within : \A j \in within : i <= j
           IN  RecordMatch(cfg, csv_record, fit_records[fit_idx], fit_idx, acc)

\* the same step passing over the binary records already matched
CompareRecordConsuming(cfg, csv_record, fit_records, acc) ==
  LET within == {i \in 1..Len(fit_records) : i \notin acc.matched_fit_indices /\ timestamps_match(csv_record.timestamp, fit_records[i].timestamp, cfg.timestamp_tolerance_seconds)}
  IN  IF within = {} THEN [acc EXCEPT !.csv_only_count = @ + 1]
      ELSE LET fit_idx == CHOOSE i \in within : \A j \in within : i <= j
           IN  RecordMatch(cfg, csv_record, fit_records[fit_idx], fit_idx, acc)

\* one turn of the outer loop (lines 214-250): the tabular record is matched
\* with the first binary record within tolerance, in list order, and the
\* search stops there; with none it counts as csv-only
CompareRecord(cfg, csv_record, fit_records, acc) ==
  LET within == {i \in 1..Len(fit_records) : timestamps_match(csv_record.timestamp, fit_records[i].timestamp, cfg.timestamp_tolerance_seconds)}
  IN  IF within = {} THEN [acc EXCEPT !.csv_only_count = @ + 1]
      ELSE LET fit_idx == CHOOSE i \in within : \A j \in within : i <= j
           IN  RecordMatch(cfg, csv_record, fit_records[fit_idx], fit_idx, acc)

RECURSIVE CompareRecords(_, _, _, _)
CompareRecords(cfg, csv_records, fit_records, acc) == IF csv_records = <<>> THEN acc ELSE CompareRecords(cfg, Tail(csv_records), fit_records, CompareRecord(cfg, csv_records[1], fit_records, acc))

RECURSIVE SumOf(_)
SumOf(lst) == IF lst = <<>> THEN 0 ELSE lst[1] + SumOf(Tail(lst))

\* ComparisonService._compare_pair: the ComparisonResult of one pair;
\* weight_mae is the pair <<sum of the differences, their number>>
compare_pair(cfg, csv_records, fit_records) ==
  LET acc == CompareRecords(cfg, csv_records, fit_records, [csv_only_count |-> 0, both_count |-> 0, matched_fit_indices |-> {}, weight_differences |-> <<>>, mismatches |-> [f \in Fields |-> 0]])
  IN  [csv_file_name |-> IF csv_records # <<>> THEN csv_records[1].source_file_name ELSE NotAvailable,
       fit_file_name |-> IF fit_records # <<>> THEN fit_records[1].source_file_name ELSE NotAvailable,
       csv_drive_id |-> IF csv_records # <<>> THEN csv_records[1].source_file_id ELSE NotAvailable,
       fit_drive_id |-> IF fit_records # <<>> THEN fit_records[1].source_file_id ELSE NotAvailable,
       csv_only_count |-> acc.csv_only_count,
       fit_only_count |-> Cardinality({i \in 1..Len(fit_records) : i \notin acc.matched_fit_indices}),
       both_count |-> acc.both_count,
       mismatches |-> acc.mismatches,
       csv_min_timestamp |-> IF csv_records # <<>> THEN Some(MinTimestamp(csv_records, csv_records[1].timestamp)) ELSE None,
       csv_max_timestamp |-> IF csv_records # <<>> THEN Some(MaxTimestamp(csv_records, csv_records[1].timestamp)) ELSE None,
       fit_min_timestamp |-> IF fit_records # <<>> THEN Some(MinTimestamp(fit_records, fit_records[1].timestamp)) ELSE None,
       fit_max_timestamp |-> IF fit_records # <<>> THEN Some(MaxTimestamp(fit_records, fit_records[1].timestamp)) ELSE None,
       weight_mae |-> IF acc.weight_differences # <<>> THEN Some(<<SumOf(acc.weight_differences), Len(acc.weight_differences)>>) ELSE None]

RECURSIVE ComparePairs(_, _)
ComparePairs(cfg, pairs) == IF pairs = <<>> THEN <<>> ELSE <<compare_pair(cfg, pairs[1].csv, pairs[1].fit)>> \o ComparePairs(cfg, Tail(pairs))

\* ComparisonService.compare: one ComparisonResult per pair
compare(cfg, csv_records, fit_records) == ComparePairs(cfg, find_file_pairs(csv_records, fit_records))

(* ------------------------------------------------------------------ *)
(* The comparison run                                                  *)
(* ------------------------------------------------------------------ *)

\* the name of a monthly export: "Peso <m>-<yyyy> Huawei Health.<kind>"
ExportName(month, kind) == <<<<"Peso">>, <<month, "2024">>, <<"Huawei">>, <<IF kind = "csv" THEN "Health.csv" ELSE "Health.fit">>>>

\* file names of one kind: January written "1" and "01", February, a name of
\* one token and a name whose month is not a number
FileNames(kind) == {ExportName("1", kind), ExportName("01", kind), ExportName("2", kind), ExportName("ene", kind), <<<<IF kind = "csv" THEN "notes.csv" ELSE "notes.fit">>>>}

\* a record as a parser hands it over: the name of its file as lineage
FileRecord(kind, name, sec, reading) == [timestamp |-> [t |-> sec * TicksPerSecond, off |-> 0], values |-> reading, source_file_name |-> name, source_file_id |-> name, source_type |-> kind]

\* records of many files, all with the same reading
PairsRecordPool == UNION {{FileRecord(k, n, s, Reading(Some(755000), Some(182000), Some(137000))) : n \in FileNames(k), s \in {0, 1}} : k \in SourceType}

\* a reading with a weight of 0 and no body fat
ZeroReading == Reading(Some(0), None, Some(137000))

\* records of one pair of files: instants 0, 1 and 3 seconds, the readings
\* of the consolidation run that have a weight, and the zero reading
CompareRecordPool == {FileRecord(k, ExportName("1", k), s, r) : k \in SourceType, s \in {0, 1, 3}, r \in (Readings \ {Reading(None, None, None)}) \cup {ZeroReading}}

InitPairs ==
  /\ pc = "ready"
  /\ config \in Configs
  /\ raw_records \in SeqsUpTo(PairsRecordPool, MaxRecords)
  /\ result = NoResult
  /\ prev_result = NoResult
  /\ call = [fn |-> "compare"]
  /\ ret = None

InitCompare ==
  /\ pc = "ready"
  /\ config \in Configs
  /\ raw_records \in SeqsUpTo(CompareRecordPool, MaxRecords)
  /\ result = NoResult
  /\ prev_result = NoResult
  /\ call = [fn |-> "compare"]
  /\ ret = None

\* the lists the compare command hands over: the records of the .csv files
\* and the records of the .fit files
CsvRecords == SelectSeq(raw_records, LAMBDA r : r.source_type = "csv")

FitRecords == SelectSeq(raw_records, LAMBDA r : r.source_type = "fit")

\* one call compare(csv_records, fit_records)
Compare ==
  /\ pc = "ready"
  /\ call.fn = "compare"
  /\ ret' = compare(config, CsvRecords, FitRecords)
  /\ pc' = "returned"
  /\ UNCHANGED <<config, raw_records, result, prev_result, call>>

NextCompare == Compare

SpecPairs == InitPairs /\ [][NextCompare]_vars

SpecCompare == InitCompare /\ [][NextCompare]_vars

CompareReturned == pc = "returned" /\ call.fn = "compare"

(* ------------------------------------------------------------------ *)
(* Properties of compare                                               *)
(* ------------------------------------------------------------------ *)

\* the names of the files of one kind among the records handed over
NamesOf(kind) == {raw_records[i].source_file_name : i \in {j \in 1..Len(raw_records) : raw_records[j].source_type = kind}}

\* C12: whenever a tabular file and a binary file have names that parse to
\* the same (month, year) key, one ComparisonResult is about both of them,
\* also when several files of one side share the key.
C12_SameKeyCompared == CompareReturned => \A c \in NamesOf("csv") : \A f \in NamesOf("fit") : (extract_month_year(c) # None /\ extract_month_year(c) = extract_month_year(f)) => \E k \in 1..Len(ret) : ret[k].csv_file_name = c /\ ret[k].fit_file_name = f

\* the records of one kind that carry the file name n, in the order handed over
RecordsNamed(kind, n) == SelectSeq(raw_records, LAMBDA r : r.source_type = kind /\ r.source_file_name = n)

\* no file of the other kind has a name with the key of n
Unpartnered(n, other) == extract_month_year(n) = None \/ \A o \in NamesOf(other) : extract_month_year(o) # extract_month_year(n)

\* C13: every file name of either kind is reported by exactly one
\* ComparisonResult, built from exactly the records of that file; a file
\* whose name has no key, or whose key no file of the other kind has, is
\* reported with the other side empty; with no records the result is empty.
C13_FilesPartitioned == CompareReturned => LET pairs == find_file_pairs(CsvRecords, FitRecords)
                                           IN  /\ Len(ret) = Len(pairs)
                                               /\ \A c \in NamesOf("csv") : \E k \in 1..Len(ret) : /\ ret[k].csv_file_name = c
                                                                                                    /\ pairs[k].csv = RecordsNamed("csv", c)
                                                                                                    /\ ret[k].csv_only_count + ret[k].both_count = Len(RecordsNamed("csv", c))
                                                                                                    /\ (\A j \in 1..Len(ret) : (j # k) => (ret[j].csv_file_name # c /\ \A i \in 1..Len(pairs[j].csv) : pairs[j].csv[i].source_file_name # c))
                                                                                                    /\ (Unpartnered(c, "fit") => (ret[k].fit_file_name = NotAvailable /\ pairs[k].fit = <<>>))
                                               /\ \A f \in NamesOf("fit") : \E k \in 1..Len(ret) : /\ ret[k].fit_file_name = f
                                                                                                    /\ pairs[k].fit = RecordsNamed("fit", f)
                                                                                                    /\ (\A j \in 1..Len(ret) : (j # k) => (ret[j].fit_file_name # f /\ \A i \in 1..Len(pairs[j].fit) : pairs[j].fit[i].source_file_name # f))
                                                                                                    /\ (Unpartnered(f, "csv") => (ret[k].csv_file_name = NotAvailable /\ pairs[k].csv = <<>>))
                                               /\ (\A k \in 1..Len(ret) : ret[k].csv_file_name # NotAvailable \/ ret[k].fit_file_name # NotAvailable)
                                               /\ (raw_records = <<>> => ret = <<>>)

\* a tabular file whose name has no key reported on its own next to a pair
\* of files that share a key
C13_Witness == CompareReturned /\ \E k, j \in 1..Len(ret) : ret[k].csv_file_name # NotAvailable /\ ret[k].fit_file_name # NotAvailable /\ ret[j].csv_file_name # NotAvailable /\ extract_month_year(ret[j].csv_file_name) = None /\ ret[j].fit_file_name = NotAvailable /\ ret[j].csv_only_count = 1

\* the records of the pair a ComparisonResult is about
PairCsv(r) == IF r.csv_file_name = NotAvailable THEN <<>> ELSE RecordsNamed("csv", r.csv_file_name)

PairFit(r) == IF r.fit_file_name = NotAvailable THEN <<>> ELSE RecordsNamed("fit", r.fit_file_name)

\* the binary records of the pair within the timestamp tolerance of record c
WithinTolerance(r, c) == {j \in 1..Len(PairFit(r)) : Abs(c.timestamp.t - PairFit(r)[j].timestamp.t) <= config.timestamp_tolerance_seconds * TicksPerSecond}

\* C14: in every ComparisonResult csv_only_count + both_count is the number
\* of tabular records of the pair, and csv_only_count is the number of
\* tabular records with no binary record of the pair within the tolerance.
C14_CsvCounts == CompareReturned => \A k \in 1..Len(ret) : /\ ret[k].csv_only_count + ret[k].both_count = Len(PairCsv(ret[k]))
                                                           /\ ret[k].csv_only_count = Cardinality({i \in 1..Len(PairCsv(ret[k])) : WithinTolerance(ret[k], PairCsv(ret[k])[i]) = {}})

\* a pair with a tabular record that matches the binary record and one that
\* is too far from it
C14_Witness == CompareReturned /\ \E k \in 1..Len(ret) : ret[k].csv_only_count = 1 /\ ret[k].both_count = 1 /\ Len(PairFit(ret[k])) = 1

\* the matched pairs of a result that disagree on field f: the tabular
\* records whose first binary record within tolerance has, like the tabular
\* record, a value for f, the two further apart than numeric_tolerance
DisagreeingPairs(r, f) == {i \in 1..Len(PairCsv(r)) : /\ WithinTolerance(r, PairCsv(r)[i]) # {}
                                                       /\ LET c == PairCsv(r)[i]
                                                              b == PairFit(r)[CHOOSE j \in WithinTolerance(r, c) : \A l \in WithinTolerance(r, c) : j <= l]
                                                          IN  c.values[f] # None /\ b.values[f] # None /\ Abs(c.values[f][1] - b.values[f][1]) > config.numeric_tolerance}

\* C17: for each of the 14 numeric fields, mismatches[f] is the number of
\* matched pairs in which both sides have a value for f and the two values
\* differ by more than numeric_tolerance.
C17_MismatchesAllFields == CompareReturned => \A k \in 1..Len(ret) : \A f \in Fields : ret[k].mismatches[f] = Cardinality(DisagreeingPairs(ret[k], f))

(* ------------------------------------------------------------------ *)
(* consolidate on records that all have a weight, at three tolerances  *)
(* ------------------------------------------------------------------ *)

\* ProcessingConfig with a tolerance of one second, of zero and a negative one
GroupConfigs == {[timestamp_tolerance_seconds |-> tt, numeric_tolerance |-> 10, record_id |-> rc, conflict_resolution |-> cc] : tt \in {-1, 0, 1}, rc \in RecordIdConfigs, cc \in ConflictConfigs}

\* records of both kinds at the instants of RecordSeconds, with two readings
\* that differ on the weight and on the twelve other fields
GroupRecordPool == {RawRecord(k, s, r) : k \in SourceType, s \in RecordSeconds, r \in {Reading(Some(755000), Some(182000), Some(137000)), Reading(Some(760000), Some(182000), Some(140000))}}

InitGroups ==
  /\ pc = "ready"
  /\ config \in GroupConfigs
  /\ raw_records \in SeqsUpTo(GroupRecordPool, MaxRecords)
  /\ result = NoResult
  /\ prev_result = NoResult
  /\ call = NoCall
  /\ ret = None

SpecGroups == InitGroups /\ [][Next]_vars

\* the positions in raw_records of the records of one kind
PositionsOf(kind) == {i \in 1..Len(raw_records) : raw_records[i].source_type = kind}

\* the instants, in ticks, of the records of one kind
InstantsOf(kind) == {raw_records[i].timestamp.t : i \in PositionsOf(kind)}

\* instant t is within timestamp_tolerance_seconds of some tabular instant
NearTabular(t) == \E c \in InstantsOf("csv") : Abs(c - t) <= config.timestamp_tolerance_seconds * TicksPerSecond

\* C21: a binary instant has a binary-only measurement (source_types = {fit},
\* timestamp = that instant) exactly when no tabular instant is within the
\* tolerance of it, and the number of measurements is the number of tabular
\* instants plus the number of binary instants not within tolerance of any
\* tabular instant.
C21_BinaryOnlyIffUnmatched == Returned => /\ \A t \in InstantsOf("fit") : (\E k \in 1..Len(result.measurements) : result.measurements[k].source_types = {"fit"} /\ result.measurements[k].timestamp.t = t) <=> ~NearTabular(t)
                                          /\ Len(result.measurements) = Cardinality(InstantsOf("csv")) + Cardinality({t \in InstantsOf("fit") : ~NearTabular(t)})

\* a tabular group that absorbed a binary group next to a binary group too
\* far from it, which gets its own measurement
C21_Witness == Returned /\ config.timestamp_tolerance_seconds = 1 /\ Len(result.measurements) = 2 /\ result.measurements[1].source_types = {"csv", "fit"} /\ result.measurements[2].source_types = {"fit"} /\ Cardinality(InstantsOf("fit")) = 2

\* the measurements of the result whose lineage lists raw record r
MeasurementsListing(r) == {k \in 1..Len(result.measurements) : InList(r.source_file_id, result.measurements[k].drive_file_ids)}

\* the earliest tabular instant within the tolerance of instant t
FirstTabularNear(t) == CHOOSE c \in InstantsOf("csv") : Abs(c - t) <= config.timestamp_tolerance_seconds * TicksPerSecond /\ \A d \in InstantsOf("csv") : Abs(d - t) <= config.timestamp_tolerance_seconds * TicksPerSecond => c <= d

\* C22: every binary raw record is in the lineage of exactly one measurement,
\* and when several tabular instants are within the tolerance of it that
\* measurement is the one of the earliest of them.
C22_FirstClaimsFirst == Returned => \A j \in PositionsOf("fit") : /\ Cardinality(MeasurementsListing(raw_records[j])) = 1
                                                                  /\ NearTabular(raw_records[j].timestamp.t) => \A k \in MeasurementsListing(raw_records[j]) : result.measurements[k].timestamp.t = FirstTabularNear(raw_records[j].timestamp.t)

\* the positions of the records measurement m was built from, told by its
\* source_types: the tabular records at its instant when it has the tabular
\* kind, and the binary records within the tolerance of its instant then, at
\* its instant otherwise
TabularOf(m) == IF "csv" \in m.source_types THEN {i \in PositionsOf("csv") : raw_records[i].timestamp.t = m.timestamp.t} ELSE {}

BinaryOf(m) == {i \in PositionsOf("fit") : IF "csv" \in m.source_types THEN Abs(raw_records[i].timestamp.t - m.timestamp.t) <= config.timestamp_tolerance_seconds * TicksPerSecond ELSE raw_records[i].timestamp.t = m.timestamp.t}

\* the list holding the first record of positions I, empty when I is empty
RepresentativeAt(I) == IF I = {} THEN <<>> ELSE <<FirstAt(I)>>

\* C23: the values, field_sources and conflicting_fields of a measurement are
\* those of merging the first tabular record of its group with the first
\* binary record among the absorbed ones, in the order handed over; and its
\* timestamp is the instant of the tabular group when it has tabular records.
C23_RepresentativeRule == Returned => \A k \in 1..Len(result.measurements) : LET m == result.measurements[k]
                                                                                  alone == merge_records(config, RepresentativeAt(TabularOf(m)), RepresentativeAt(BinaryOf(m)))
                                                                              IN  /\ m.values = alone.values
                                                                                  /\ m.field_sources = alone.field_sources
                                                                                  /\ m.conflicting_fields = alone.conflicting_fields
                                                                                  /\ (TabularOf(m) # {} => m.timestamp = FirstAt(TabularOf(m)).timestamp)

\* a tabular record that absorbed two binary records: the one handed over
\* first, of another instant and with another weight, decides the weight,
\* not the one of its own instant
C23_Witness == Returned /\ \E k \in 1..Len(result.measurements) : LET m == result.measurements[k] IN TabularOf(m) # {} /\ Cardinality(BinaryOf(m)) = 2 /\ FirstAt(BinaryOf(m)).timestamp.t # m.timestamp.t /\ (\E j \in BinaryOf(m) : raw_records[j].timestamp.t = m.timestamp.t /\ raw_records[j].values["weight_kg"] # FirstAt(BinaryOf(m)).values["weight_kg"]) /\ m.values["weight_kg"] = FirstAt(BinaryOf(m)).values["weight_kg"] /\ m.values["weight_kg"] # FirstAt(TabularOf(m)).values["weight_kg"]

\* C28: with timestamp_tolerance_seconds >= 0 the timestamps of the returned
\* measurements are strictly increasing: no two of them share an instant.
C28_StrictlyIncreasing == (Returned /\ config.timestamp_tolerance_seconds >= 0) => \A i \in 1..Len(result.measurements) : \A j \in 1..Len(result.measurements) : i < j => result.measurements[i].timestamp.t < result.measurements[j].timestamp.t

\* tolerance 0: the binary record of the tabular instant is absorbed, the
\* binary record a second later gets the next measurement
C28_Witness == Returned /\ config.timestamp_tolerance_seconds = 0 /\ Len(result.measurements) = 2 /\ result.measurements[1].source_types = {"csv", "fit"} /\ result.measurements[2].source_types = {"fit"} /\ result.measurements[2].timestamp.t = result.measurements[1].timestamp.t + TicksPerSecond

\* C29: the record_ids of the measurements of one result are pairwise
\* distinct.
C29_RecordIdsDistinct == Returned => \A i \in 1..Len(result.measurements) : \A j \in 1..Len(result.measurements) : i # j => result.measurements[i].record_id # result.measurements[j].record_id

\* C30: in every returned measurement field_sources has an entry for each of
\* the 14 numeric fields, and the entry of a field is the conflict tag
\* exactly when the field is in conflicting_fields.
C30_ConflictRecordsAgree == Returned => \A k \in 1..Len(result.measurements) : /\ DOMAIN result.measurements[k].field_sources = Fields
                                                                               /\ \A f \in Fields : (result.measurements[k].field_sources[f] = "conflict") <=> InList(f, result.measurements[k].conflicting_fields)

\* the position, in the binary list of the pair, of the first binary record
\* within the tolerance of tabular record c
FirstWithin(r, c) == CHOOSE j \in WithinTolerance(r, c) : \A l \in WithinTolerance(r, c) : j <= l

\* the positions of the binary records that are the first one within the
\* tolerance of some tabular record of the pair
Selected(r) == {FirstWithin(r, PairCsv(r)[i]) : i \in {n \in 1..Len(PairCsv(r)) : WithinTolerance(r, PairCsv(r)[n]) # {}}}

\* C24: each tabular record with a binary record within the tolerance adds
\* exactly one to both_count and is paired with the binary record of lowest
\* index among those within the tolerance: the binary records never selected
\* are the fit-only ones, and the mismatches of the compared fields are those
\* of these pairs.
C24_FirstMatch == CompareReturned => \A k \in 1..Len(ret) : /\ ret[k].both_count = Cardinality({i \in 1..Len(PairCsv(ret[k])) : WithinTolerance(ret[k], PairCsv(ret[k])[i]) # {}})
                                                            /\ ret[k].fit_only_count = Cardinality((1..Len(PairFit(ret[k]))) \ Selected(ret[k]))
                                                            /\ \A f \in ComparedFields : ret[k].mismatches[f] = Cardinality(DisagreeingPairs(ret[k], f))

\* a tabular record with two binary records within the tolerance: it is
\* paired with the first, of another instant and another fat mass, and the
\* binary record of its own instant is left fit-only
C24_Witness == CompareReturned /\ \E k \in 1..Len(ret) : Len(PairCsv(ret[k])) = 1 /\ Len(PairFit(ret[k])) = 2 /\ PairFit(ret[k])[1].timestamp.t # PairCsv(ret[k])[1].timestamp.t /\ PairFit(ret[k])[2].timestamp.t = PairCsv(ret[k])[1].timestamp.t /\ PairFit(ret[k])[2].values = PairCsv(ret[k])[1].values /\ ret[k].both_count = 1 /\ ret[k].fit_only_count = 1 /\ ret[k].mismatches["fat_mass_kg"] = 1

\* the matched pairs of a result in which both records have a weight: the
\* positions of their tabular records
WeighedPairs(r) == {i \in 1..Len(PairCsv(r)) : WithinTolerance(r, PairCsv(r)[i]) # {} /\ PairCsv(r)[i].values["weight_kg"] # None /\ PairFit(r)[FirstWithin(r, PairCsv(r)[i])].values["weight_kg"] # None}

\* the sum of |weight_csv - weight_fit| over the pairs at positions I
RECURSIVE SumOfDifferences(_, _)
SumOfDifferences(r, I) == IF I = {} THEN 0 ELSE LET i == CHOOSE n \in I : TRUE IN Abs(PairCsv(r)[i].values["weight_kg"][1] - PairFit(r)[FirstWithin(r, PairCsv(r)[i])].values["weight_kg"][1]) + SumOfDifferences(r, I \ {i})

\* C25: weight_mae is the mean of |weight_csv - weight_fit| over the matched
\* pairs in which both weights are present, a weight of 0 included, and is
\* absent exactly when there is no such pair; mismatches["weight_kg"] counts
\* the pairs among them that differ by more than numeric_tolerance.
C25_WeightMae == CompareReturned => \A k \in 1..Len(ret) : /\ (ret[k].weight_mae = None) <=> (WeighedPairs(ret[k]) = {})
                                                           /\ (ret[k].weight_mae # None => ret[k].weight_mae[1][1] * Cardinality(WeighedPairs(ret[k])) = SumOfDifferences(ret[k], WeighedPairs(ret[k])) * ret[k].weight_mae[1][2])
                                                           /\ ret[k].mismatches["weight_kg"] = Cardinality(DisagreeingPairs(ret[k], "weight_kg"))

\* C27: in every ComparisonResult fit_only_count + both_count is the number
\* of binary records of the pair, and both_count does not exceed it.
C27_FitCounts == CompareReturned => \A k \in 1..Len(ret) : ret[k].fit_only_count + ret[k].both_count = Len(PairFit(ret[k])) /\ ret[k].both_count <= Len(PairFit(ret[k]))

(* ------------------------------------------------------------------ *)
(* The pipeline: consolidate, then compare, on the same records        *)
(* ------------------------------------------------------------------ *)

\* records of one pair of files at the instants 0, 1 and 3 seconds, all with
\* a weight
PipelineRecordPool == {FileRecord(k, ExportName("1", k), s, r) : k \in SourceType, s \in {0, 1, 3}, r \in {Reading(Some(755000), Some(182000), Some(137000)), Reading(Some(760000), Some(182000), Some(140000))}}

InitPipeline ==
  /\ pc = "ready"
  /\ config \in Configs
  /\ raw_records \in SeqsUpTo(PipelineRecordPool, MaxRecords)
  /\ result = NoResult
  /\ prev_result = NoResult
  /\ call = [fn |-> "compare"]
  /\ ret = None

\* the compare step of the pipeline, after the build step, on the same files
CompareAfterBuild ==
  /\ pc = "done"
  /\ call.fn = "compare"
  /\ ret' = compare(config, CsvRecords, FitRecords)
  /\ pc' = "compared"
  /\ UNCHANGED <<config, raw_records, result, prev_result, call>>

NextPipeline == Consolidate \/ CompareAfterBuild

SpecPipeline == InitPipeline /\ [][NextPipeline]_vars

\* the tabular record at position i of the pair of result r belongs to a
\* measurement of the consolidation that has the binary kind
MergedWithBinary(r, i) == \E k \in 1..Len(result.measurements) : result.measurements[k].timestamp.t = PairCsv(r)[i].timestamp.t /\ "csv" \in result.measurements[k].source_types /\ "fit" \in result.measurements[k].source_types

\* C26: on the records of one file pair, all with a weight, the tabular
\* records compare counts as matched are those whose measurement in the
\* consolidation has the binary kind among its source_types, and the ones
\* it counts csv-only are the others.
C26_SameNotionOfEvent == (pc = "compared" /\ result.status = "returned") => \A k \in 1..Len(ret) : /\ ret[k].both_count = Cardinality({i \in 1..Len(PairCsv(ret[k])) : MergedWithBinary(ret[k], i)})
                                                                                                   /\ ret[k].csv_only_count = Cardinality({i \in 1..Len(PairCsv(ret[k])) : ~MergedWithBinary(ret[k], i)})

\* a tabular record exactly the tolerance away from a binary record, matched
\* by both, and a tabular record too far from it, matched by neither
C26_Witness == pc = "compared" /\ result.status = "returned" /\ Len(ret) = 1 /\ ret[1].both_count = 1 /\ ret[1].csv_only_count = 1 /\ Len(result.measurements) = 2 /\ (\E k \in 1..2 : result.measurements[k].source_types = {"csv", "fit"} /\ \E j \in PositionsOf("fit") : Abs(raw_records[j].timestamp.t - result.measurements[k].timestamp.t) = config.timestamp_tolerance_seconds * TicksPerSecond) /\ (\E k \in 1..2 : result.measurements[k].source_types = {"csv"})

====
